---- MODULE Spec2Model ----
(***************************************************************************)
(* Model of src/app.py: one top-to-bottom run of the Streamlit script that *)
(* loads the AHD classifier artifact, reads the sidebar widgets, derives   *)
(* the feature dictionary, aligns it against the artifact's feature_names, *)
(* reads the threshold slider and, when the button is pressed, shows the   *)
(* prediction and its tier.                                                *)
(*                                                                         *)
(* Numbers.  Python ints and floats are tagged rationals                   *)
(* [ty, num, den]; astype(float) retags.  Probabilities and the threshold  *)
(* are in thousandths (0.45 is 450), so a probability can fall strictly    *)
(* between two slider positions (the slider moves in steps of 0.01).       *)
(* Strings that the script inspects character by character (sex) are       *)
(* sequences of one-character strings.                                     *)
(***************************************************************************)
EXTENDS Integers, Sequences, FiniteSets, TLC

VARIABLES
    pc,               \* position of the script run
    artifact,         \* what joblib.load finds: [file, feature_names, clf]
    defined,          \* Python globals bound so far ("derived": lines 61-76)
    model_loaded,     \* line 11 / 14
    feature_names,    \* line 10
    demo_choice,      \* line 26
    obs,              \* age, weight, ..., sex (lines 34-42, 46-58)
    derived,          \* lines 61-76
    input_data_dict,  \* lines 79-100
    X_input,          \* line 102
    threshold,        \* line 106
    clicked,          \* line 110, the button's return value
    pred,             \* line 111
    proba,            \* line 112
    calls,            \* number of calls made to the classifier
    shown,            \* what the run displayed: [cls, proba, tier]
    error             \* the unhandled exception that ended the run, or "none"

vars == <<pc, artifact, defined, model_loaded, feature_names, demo_choice, obs,
          derived, input_data_dict, X_input, threshold, clicked, pred, proba,
          calls, shown, error>>

----------------------------------------------------------------------------
(* Numbers *)

PyInt(n) == [ty |-> "int", num |-> n, den |-> 1]

PyFloat(n, d) == [ty |-> "float", num |-> n, den |-> d]

\* int(<bool>)
IntOfBool(b) == PyInt(IF b THEN 1 ELSE 0)

\* numeric equality of two tagged numbers (Python's 1 == 1.0); used on
\* counts and flags, whose denominators are 1
NumEq(a, b) == a.num * b.den = b.num * a.den

\* .astype(float): every column becomes float64, the value is kept
AsFloat(v) == [v EXCEPT !.ty = "float"]

----------------------------------------------------------------------------
(* Strings inspected by the script *)

Female == <<"F", "e", "m", "a", "l", "e">>

Male == <<"M", "a", "l", "e">>

\* str.lower() on the letters the inputs use
LowerChar(c) ==
    CASE c = "F" -> "f"
      [] c = "M" -> "m"
      [] c = "O" -> "o"
      [] OTHER -> c

Lower(s) == [i \in 1..Len(s) |-> LowerChar(s[i])]

StartsWith(s, c) == Len(s) >= 1 /\ s[1] = c

----------------------------------------------------------------------------
(* Widget domains (lines 26-42) and the values sampled from them *)

NoDemo == "None (Manual Entry)"

DemoChoices == {NoDemo, "Low Risk - Stable Patient",
                "Moderate Risk - Monitoring Needed",
                "High Risk - Immediate Review"}

WhoStages == {1, 2, 3, 4}

Cd4RiskCategories == {"Severe", "Moderate", "Normal", "Unknown"}

Sexes == {Female, Male}

CD4Min == 0

CD4Max == 2000

VLMin == 0

VLMax == 10000000

\* low CD4 counts are sampled from CD4Min up to this count
Cd4SampleMax == 1

\* sampled CD4 counts: both sides of the "missing" test and the upper end
CD4Values == {c \in (0..Cd4SampleMax) \cup {2000} : CD4Min <= c /\ c <= CD4Max}

\* sampled viral loads: both sides of the "missing" and "suppressed" tests
VLValues == {v \in {0, 999, 1000} : VLMin <= v /\ v <= VLMax}

\* the other numeric widgets at their default values
ManualObservations ==
    [age : {35}, weight : {60}, height : {165}, cd4 : CD4Values, vl : VLValues,
     months_rx : {3}, who_stage : WhoStages, cd4_risk : Cd4RiskCategories,
     sex : Sexes]

\* lines 46-58
DemoProfile(choice, manual) ==
    CASE choice = "Low Risk - Stable Patient" ->
           [age |-> 28, weight |-> 65, height |-> 168, cd4 |-> 850, vl |-> 50,
            months_rx |-> 3, who_stage |-> 1, cd4_risk |-> "Normal",
            sex |-> Female]
      [] choice = "Moderate Risk - Monitoring Needed" ->
           [age |-> 35, weight |-> 60, height |-> 165, cd4 |-> 400, vl |-> 1200,
            months_rx |-> 2, who_stage |-> 3, cd4_risk |-> "Moderate",
            sex |-> Male]
      [] choice = "High Risk - Immediate Review" ->
           [age |-> 42, weight |-> 55, height |-> 160, cd4 |-> 150, vl |-> 5000,
            months_rx |-> 1, who_stage |-> 4, cd4_risk |-> "Severe",
            sex |-> Male]
      [] OTHER -> manual

----------------------------------------------------------------------------
(* Derived fields (lines 61-76) *)

VLSuppressedCutoff == 1000

\* line 61
Bmi(weight, height) ==
    IF height > 0 THEN PyFloat(weight * 10000, height * height) ELSE PyInt(0)

\* line 62
Cd4Missing(cd4) == PyInt(IF cd4 > 0 THEN 0 ELSE 1)

\* line 63
VlMissing(vl) == PyInt(IF vl > 0 THEN 0 ELSE 1)

VlSuppressedUnlessMissing(vl) ==
    PyInt(IF vl > 0 /\ vl < VLSuppressedCutoff THEN 1 ELSE 0)

\* line 64
VlSuppressed(vl) == PyInt(IF vl < VLSuppressedCutoff THEN 1 ELSE 0)

Cd4RiskIndicatorElseNormal(cd4_risk, category) ==
    IntOfBool(IF category = "Normal"
              THEN cd4_risk \notin {"Severe", "Moderate"}
              ELSE cd4_risk = category)

\* lines 65-67
Cd4RiskIndicator(cd4_risk, category) == IntOfBool(cd4_risk = category)

\* lines 68-70
WhoStageIndicator(who_stage, stage) == IntOfBool(who_stage = stage)

\* line 71
SexM(sex) == IntOfBool(StartsWith(Lower(sex), "m"))

Derive(o) ==
    [bmi |-> Bmi(o.weight, o.height),
     cd4_missing |-> Cd4Missing(o.cd4),
     vl_missing |-> VlMissing(o.vl),
     vl_suppressed |-> VlSuppressed(o.vl),
     cd4_risk_Severe |-> Cd4RiskIndicator(o.cd4_risk, "Severe"),
     cd4_risk_Moderate |-> Cd4RiskIndicator(o.cd4_risk, "Moderate"),
     cd4_risk_Normal |-> Cd4RiskIndicator(o.cd4_risk, "Normal"),
     Last_WHO_Stage_2 |-> WhoStageIndicator(o.who_stage, 2),
     Last_WHO_Stage_3 |-> WhoStageIndicator(o.who_stage, 3),
     Last_WHO_Stage_4 |-> WhoStageIndicator(o.who_stage, 4),
     Sex_M |-> SexM(o.sex),
     Active_in_PMTCT_Missing |-> PyInt(0),
     Cacx_Screening_Missing |-> PyInt(0),
     Refill_Date_Missing |-> PyInt(0)]

----------------------------------------------------------------------------
(* The input dictionary (lines 79-100) *)

\* the dictionary's keys in insertion order
DictKeys ==
    <<"Age at reporting", "Weight", "Height", "BMI", "Latest CD4 Result",
      "CD4_Missing", "Last VL Result", "VL_Suppressed", "VL_Missing",
      "Months of Prescription", "cd4_risk_Moderate", "cd4_risk_Normal",
      "cd4_risk_Severe", "Last_WHO_Stage_2", "Last_WHO_Stage_3",
      "Last_WHO_Stage_4", "Active_in_PMTCT_Missing", "Cacx_Screening_Missing",
      "Refill_Date_Missing", "Sex_M">>

KeySet == {DictKeys[i] : i \in 1..Len(DictKeys)}

\* line 84
LatestCd4Result(o) == PyInt(o.cd4)

InputDataDict(o, d) ==
    [k \in KeySet |->
        CASE k = "Age at reporting" -> PyInt(o.age)
          [] k = "Weight" -> PyFloat(o.weight, 1)
          [] k = "Height" -> PyInt(o.height)
          [] k = "BMI" -> d.bmi
          [] k = "Latest CD4 Result" -> LatestCd4Result(o)
          [] k = "CD4_Missing" -> d.cd4_missing
          [] k = "Last VL Result" -> PyInt(o.vl)
          [] k = "VL_Suppressed" -> d.vl_suppressed
          [] k = "VL_Missing" -> d.vl_missing
          [] k = "Months of Prescription" -> PyInt(o.months_rx)
          [] k = "cd4_risk_Moderate" -> d.cd4_risk_Moderate
          [] k = "cd4_risk_Normal" -> d.cd4_risk_Normal
          [] k = "cd4_risk_Severe" -> d.cd4_risk_Severe
          [] k = "Last_WHO_Stage_2" -> d.Last_WHO_Stage_2
          [] k = "Last_WHO_Stage_3" -> d.Last_WHO_Stage_3
          [] k = "Last_WHO_Stage_4" -> d.Last_WHO_Stage_4
          [] k = "Active_in_PMTCT_Missing" -> d.Active_in_PMTCT_Missing
          [] k = "Cacx_Screening_Missing" -> d.Cacx_Screening_Missing
          [] k = "Refill_Date_Missing" -> d.Refill_Date_Missing
          [] OTHER -> d.Sex_M]

----------------------------------------------------------------------------
(* The model artifact (line 8) *)

\* feature_names lists the artifact may carry: every dictionary key in the
\* dictionary's order, a sub-list, the same sub-list permuted, a list that
\* repeats a name, and two lists naming a feature the script does not derive
Schemas ==
    {DictKeys,
     <<"Latest CD4 Result", "CD4_Missing", "Sex_M", "BMI">>,
     <<"BMI", "Sex_M", "CD4_Missing", "Latest CD4 Result">>,
     <<"VL_Missing", "VL_Suppressed", "VL_Missing">>,
     <<"CD4_Missing", "TB_Status_Missing", "Sex_M">>,
     <<"Refill Date", "BMI">>}

\* sampled positive-class probabilities, in thousandths
ProbValues == {0, 450, 451, 750, 820, 1000}

\* The classifier is external: all the run sees of it are its two answers on
\* the one vector the run hands it.
Classifiers == [pred : {0, 1}, proba : ProbValues]

NoClassifier == [pred |-> 0, proba |-> 0]

Artifacts ==
    [file : {"present"}, feature_names : Schemas, clf : Classifiers]
    \cup [file : {"absent", "unreadable"}, feature_names : {<<>>},
          clf : {NoClassifier}]

\* line 111: model.predict(X_input)[0]
Predict(model, X) == model.pred

\* line 112: model.predict_proba(X_input)[0][1]
PredictProba(model, X) == model.proba

----------------------------------------------------------------------------
(* Schema alignment (line 102) *)

\* pd.DataFrame([d])[names] raises KeyError when a name is not a column
MissingColumns(d, names) ==
    {i \in 1..Len(names) : names[i] \notin DOMAIN d}

AlignRowPositional(d, names) ==
    [i \in 1..Len(names) |-> AsFloat(d[DictKeys[i]])]

\* pd.DataFrame([d])[names].astype(float), as the one row it holds
AlignRow(d, names) == [i \in 1..Len(names) |-> AsFloat(d[names[i]])]

----------------------------------------------------------------------------
(* Threshold slider (line 106), in thousandths *)

SliderMin == 0

SliderMax == 1000

SliderStep == 10

SliderDefault == 450

SliderPositions ==
    {t \in SliderMin..SliderMax : (t - SliderMin) % SliderStep = 0}

\* sampled slider positions
ThresholdValues == SliderPositions \cap {0, SliderDefault, 750, 900, 1000}

----------------------------------------------------------------------------
(* Presentation of the prediction (lines 117-125) *)

\* line 117
ClassLabel(p) == IF p = 1 THEN "Yes" ELSE "No"

\* line 119: f"{proba:.2%}", in hundredths of a percent
FormatPercent(p) == p * 10

TierAtOrAbove(p, t) == IF p >= t THEN "AboveThreshold" ELSE "BelowThreshold"

\* lines 122-125
Tier(p, t) == IF p > t THEN "AboveThreshold" ELSE "BelowThreshold"

PresentationClassFromThreshold(p, pr, t) ==
    [cls |-> IF pr > t THEN "Yes" ELSE "No",
     proba |-> FormatPercent(pr),
     tier |-> Tier(pr, t)]

\* lines 114-125: what a prediction puts on the page
Presentation(p, pr, t) ==
    [cls |-> ClassLabel(p), proba |-> FormatPercent(pr), tier |-> Tier(pr, t)]

NothingShown == [cls |-> "none", proba |-> -1, tier |-> "none"]

----------------------------------------------------------------------------
(* The script run *)

Unset == PyInt(0)

UnsetDerived == Derive([age |-> 0, weight |-> 0, height |-> 0, cd4 |-> 1,
                        vl |-> 1000, months_rx |-> 0, who_stage |-> 1,
                        cd4_risk |-> "Unknown", sex |-> <<>>])

UnsetObservation ==
    [age |-> 0, weight |-> 0, height |-> 0, cd4 |-> 0, vl |-> 0,
     months_rx |-> 0, who_stage |-> 1, cd4_risk |-> "Unknown", sex |-> <<>>]

Init ==
    /\ pc = "load"
    /\ artifact \in Artifacts
    /\ defined = {}
    /\ model_loaded = FALSE
    /\ feature_names = <<>>
    /\ demo_choice = NoDemo
    /\ obs = UnsetObservation
    /\ derived = UnsetDerived
    /\ input_data_dict = [k \in KeySet |-> Unset]
    /\ X_input = <<>>
    /\ threshold = SliderDefault
    /\ clicked = FALSE
    /\ pred = -1
    /\ proba = -1
    /\ calls = 0
    /\ shown = NothingShown
    /\ error = "none"

\* lines 7-14
LoadModel ==
    /\ pc = "load"
    /\ CASE artifact.file = "present" ->
              /\ defined' = defined \cup {"deploy", "model", "feature_names",
                                          "model_loaded"}
              /\ feature_names' = artifact.feature_names
              /\ model_loaded' = TRUE
              /\ pc' = "widgets"
              /\ error' = error
         [] artifact.file = "absent" ->
              \* except FileNotFoundError: only model_loaded is bound
              /\ defined' = defined \cup {"model_loaded"}
              /\ feature_names' = feature_names
              /\ model_loaded' = FALSE
              /\ pc' = "widgets"
              /\ error' = error
         [] OTHER ->
              \* any other exception of joblib.load is not caught
              /\ defined' = defined
              /\ feature_names' = feature_names
              /\ model_loaded' = model_loaded
              /\ pc' = "crashed"
              /\ error' = "LoadError"
    /\ UNCHANGED <<artifact, demo_choice, obs, derived, input_data_dict,
                   X_input, threshold, clicked, pred, proba, calls, shown>>

\* lines 26-42
ReadWidgets ==
    /\ pc = "widgets"
    /\ demo_choice' \in DemoChoices
    /\ obs' \in ManualObservations
    /\ pc' = "demo"
    /\ UNCHANGED <<artifact, defined, model_loaded, feature_names, derived,
                   input_data_dict, X_input, threshold, clicked, pred, proba,
                   calls, shown, error>>

\* lines 46-58
ApplyDemoProfile ==
    /\ pc = "demo"
    /\ obs' = IF demo_choice # NoDemo THEN DemoProfile(demo_choice, obs) ELSE obs
    /\ pc' = "derive"
    /\ UNCHANGED <<artifact, defined, model_loaded, feature_names, demo_choice,
                   derived, input_data_dict, X_input, threshold, clicked, pred,
                   proba, calls, shown, error>>

\* lines 61-76
DeriveFields ==
    /\ pc = "derive"
    /\ derived' = Derive(obs)
    /\ defined' = defined \cup {"derived"}
    /\ pc' = "build"
    /\ UNCHANGED <<artifact, model_loaded, feature_names, demo_choice,
                   obs, input_data_dict, X_input, threshold, clicked, pred,
                   proba, calls, shown, error>>

\* lines 79-100
BuildInput ==
    /\ pc = "build"
    /\ input_data_dict' = InputDataDict(obs, derived)
    /\ defined' = defined \cup {"input_data_dict"}
    /\ pc' = "align"
    /\ UNCHANGED <<artifact, model_loaded, feature_names, demo_choice,
                   obs, derived, X_input, threshold, clicked, pred, proba,
                   calls, shown, error>>

AlignOutcomeFillMissing(bound, d, names) ==
    IF "feature_names" \notin bound
    THEN [error |-> "NameError", row |-> <<>>]
    ELSE [error |-> "none",
          row |-> [i \in 1..Len(names) |->
                     IF names[i] \in DOMAIN d THEN AsFloat(d[names[i]])
                     ELSE PyFloat(0, 1)]]

\* line 102: the exception it raises (or "none") and the row it yields
AlignOutcome(bound, d, names) ==
    IF "feature_names" \notin bound
    THEN [error |-> "NameError", row |-> <<>>]
    ELSE IF MissingColumns(d, names) # {}
    THEN [error |-> "KeyError", row |-> <<>>]
    ELSE [error |-> "none", row |-> AlignRow(d, names)]

\* line 102
Align ==
    /\ pc = "align"
    /\ LET out == AlignOutcome(defined, input_data_dict, feature_names) IN
         IF out.error = "none"
         THEN /\ X_input' = out.row
              /\ defined' = defined \cup {"X_input"}
              /\ pc' = "slider"
              /\ error' = error
         ELSE /\ X_input' = X_input
              /\ defined' = defined
              /\ pc' = "crashed"
              /\ error' = out.error
    /\ UNCHANGED <<artifact, model_loaded, feature_names, demo_choice, obs,
                   derived, input_data_dict, threshold, clicked, pred, proba,
                   calls, shown>>

\* lines 105-107
ThresholdSlider ==
    /\ pc = "slider"
    /\ threshold' \in ThresholdValues
    /\ defined' = defined \cup {"threshold"}
    /\ pc' = "predict"
    /\ UNCHANGED <<artifact, model_loaded, feature_names, demo_choice, obs,
                   derived, input_data_dict, X_input, clicked, pred, proba,
                   calls, shown, error>>

\* line 110: the button is rendered, and may be pressed, only when
\* model_loaded is true ("and" short-circuits)
ButtonStates(loaded) == IF loaded THEN {TRUE, FALSE} ELSE {FALSE}

\* lines 110-140
Prediction ==
    /\ pc = "predict"
    /\ \E b \in ButtonStates(model_loaded) :
         /\ clicked' = b
         /\ IF model_loaded /\ b
            THEN /\ pred' = Predict(artifact.clf, X_input)
                 /\ proba' = PredictProba(artifact.clf, X_input)
                 /\ calls' = calls + 2
                 /\ shown' = Presentation(pred', proba', threshold)
            ELSE UNCHANGED <<pred, proba, calls, shown>>
    /\ pc' = "footer"
    /\ UNCHANGED <<artifact, defined, model_loaded, feature_names, demo_choice,
                   obs, derived, input_data_dict, X_input, threshold, error>>

\* lines 143-144
Footer ==
    /\ pc = "footer"
    /\ pc' = "done"
    /\ UNCHANGED <<artifact, defined, model_loaded, feature_names, demo_choice,
                   obs, derived, input_data_dict, X_input, threshold, clicked,
                   pred, proba, calls, shown, error>>

Next ==
    \/ LoadModel
    \/ ReadWidgets
    \/ ApplyDemoProfile
    \/ DeriveFields
    \/ BuildInput
    \/ Align
    \/ ThresholdSlider
    \/ Prediction
    \/ Footer

Spec == Init /\ [][Next]_vars

----------------------------------------------------------------------------
(* Feature derivation on its own: lines 61-100 applied to observations     *)
(* whose categorical fields may lie outside the widgets' option lists.     *)
(* The statements themselves accept any value.                             *)

Other == <<"O", "t", "h", "e", "r">>

LowerMale == <<"m", "a", "l", "e">>

AnyObservations ==
    [age : {35}, weight : {60}, height : {165}, cd4 : {0, 350},
     vl : {0, 1000}, months_rx : {3}, who_stage : 0..5,
     cd4_risk : Cd4RiskCategories \cup {"High"},
     sex : Sexes \cup {Other, LowerMale, <<>>}]

ValidEnums(o) ==
    /\ o.who_stage \in WhoStages
    /\ o.cd4_risk \in Cd4RiskCategories
    /\ o.sex \in Sexes

InitDerive ==
    /\ pc = "derive"
    /\ artifact = [file |-> "present", feature_names |-> DictKeys,
                   clf |-> NoClassifier]
    /\ defined = {"deploy", "model", "feature_names", "model_loaded"}
    /\ model_loaded = TRUE
    /\ feature_names = DictKeys
    /\ demo_choice = NoDemo
    /\ obs \in AnyObservations
    /\ derived = UnsetDerived
    /\ input_data_dict = [k \in KeySet |-> Unset]
    /\ X_input = <<>>
    /\ threshold = SliderDefault
    /\ clicked = FALSE
    /\ pred = -1
    /\ proba = -1
    /\ calls = 0
    /\ shown = NothingShown
    /\ error = "none"

NextDerive == DeriveFields \/ BuildInput

SpecDerive == InitDerive /\ [][NextDerive]_vars

----------------------------------------------------------------------------
(* Properties *)

Derived == "derived" \in defined

Built == "input_data_dict" \in defined

AlignAttempted == Built /\ pc # "align"

RunEnded == pc \in {"done", "crashed"}

Predicted == shown # NothingShown

SchemaMismatch ==
    \E i \in 1..Len(feature_names) : feature_names[i] \notin DOMAIN input_data_dict

\* C1: when the artifact is absent the run reaches the model-unavailable
\* state and still runs to the end of the script: no unhandled error, the
\* threshold control is reached, and only the prediction is left out.
C1_ModelUnavailableRunCompletes ==
    (artifact.file = "absent" /\ RunEnded) =>
        /\ pc = "done"
        /\ error = "none"
        /\ model_loaded = FALSE
        /\ "threshold" \in defined
        /\ calls = 0
        /\ shown = NothingShown

\* C2: a feature_names entry that is not a key of the dictionary makes the
\* alignment fail: no vector is bound, nothing is filled in for the name,
\* the classifier is not called and no tier is shown.
C2_SchemaMismatchFails ==
    (model_loaded /\ SchemaMismatch /\ AlignAttempted) =>
        /\ pc = "crashed"
        /\ error = "KeyError"
        /\ "X_input" \notin defined
        /\ X_input = <<>>
        /\ calls = 0
        /\ shown = NothingShown

C2_Witness ==
    /\ pc = "crashed"
    /\ error = "KeyError"
    /\ model_loaded
    /\ SchemaMismatch
    /\ \E i \in 1..Len(feature_names) : feature_names[i] \in DOMAIN input_data_dict

C4_ThresholdTier ==
    /\ Predicted =>
          /\ shown.tier \in {"AboveThreshold", "BelowThreshold"}
          /\ shown.tier = "AboveThreshold" <=> proba > threshold
          /\ shown.tier = "BelowThreshold" <=> proba <= threshold
    /\ (clicked /\ pc \in {"footer", "done"}) => Predicted

C4_Witness ==
    /\ Predicted
    /\ proba = threshold
    /\ shown.tier = "BelowThreshold"

\* the fixed bands of the specification's section 4.4, in thousandths
FixedBandTier(p) ==
    IF p > 750 THEN "High" ELSE IF p > 450 THEN "Moderate" ELSE "Low"

\* C5: the tier shown is High above 0.75, Moderate above 0.45 and up to 0.75,
\* and Low up to 0.45, whatever the adjustable threshold is.
C5_FixedBandTier ==
    Predicted => shown.tier = FixedBandTier(proba)

\* C6: when every feature_names entry is a key of the dictionary, the vector
\* has one float column per entry, column i holds the dictionary's value of
\* the i-th entry, and the keys feature_names leaves out raise no error.
C6_AlignedVector ==
    /\ "X_input" \in defined =>
          /\ Len(X_input) = Len(feature_names)
          /\ \A i \in 1..Len(feature_names) :
                /\ X_input[i].ty = "float"
                /\ X_input[i].num = input_data_dict[feature_names[i]].num
                /\ X_input[i].den = input_data_dict[feature_names[i]].den
    /\ (model_loaded /\ ~SchemaMismatch /\ AlignAttempted) =>
          /\ "X_input" \in defined
          /\ error = "none"

C6_Witness ==
    /\ "X_input" \in defined
    /\ feature_names = <<"BMI", "Sex_M", "CD4_Missing", "Latest CD4 Result">>
    /\ X_input[1] = derived.bmi
    /\ X_input[2].num = 1
    /\ X_input[3].num = 0
    /\ X_input[4].num = obs.cd4
    /\ pc = "done"

\* C7: CD4_Missing is 1 exactly when the CD4 count is at most 0, and when it
\* is 1 the raw count is not the value of 'Latest CD4 Result'.
C7_MissingExcludesValue ==
    Built =>
        /\ input_data_dict["CD4_Missing"].num = 1 <=> obs.cd4 <= 0
        /\ input_data_dict["CD4_Missing"].num = 1 =>
               ~NumEq(input_data_dict["Latest CD4 Result"], PyInt(obs.cd4))

RiskOnes ==
    {c \in {"Severe", "Moderate", "Normal"} :
        (CASE c = "Severe" -> derived.cd4_risk_Severe
           [] c = "Moderate" -> derived.cd4_risk_Moderate
           [] OTHER -> derived.cd4_risk_Normal).num = 1}

StageOnes ==
    {st \in {2, 3, 4} :
        (CASE st = 2 -> derived.Last_WHO_Stage_2
           [] st = 3 -> derived.Last_WHO_Stage_3
           [] OTHER -> derived.Last_WHO_Stage_4).num = 1}

IndicatorValues ==
    {derived.cd4_risk_Severe, derived.cd4_risk_Moderate, derived.cd4_risk_Normal,
     derived.Last_WHO_Stage_2, derived.Last_WHO_Stage_3, derived.Last_WHO_Stage_4}

\* C8: at most one CD4 risk indicator is 1, it is the one of the entered
\* category, and all three are 0 exactly for Unknown; at most one WHO stage
\* indicator is 1 and all three are 0 exactly for stage 1.
C8_OneHot ==
    Derived =>
        /\ \A v \in IndicatorValues : v.num \in {0, 1} /\ v.den = 1
        /\ Cardinality(RiskOnes) <= 1
        /\ RiskOnes \subseteq {obs.cd4_risk}
        /\ RiskOnes = {} <=> obs.cd4_risk = "Unknown"
        /\ Cardinality(StageOnes) <= 1
        /\ StageOnes \subseteq {obs.who_stage}
        /\ StageOnes = {} <=> obs.who_stage = 1

C8_Witness ==
    /\ Derived
    /\ obs.cd4_risk = "Unknown"
    /\ RiskOnes = {}
    /\ obs.who_stage = 3
    /\ StageOnes = {3}

\* C9: VL_Suppressed is 1 exactly when the viral load is below 1000, whatever
\* VL_Missing is: a viral load of 0 gives both flags 1, and VL_Missing = 1
\* implies VL_Suppressed = 1.
C9_SuppressedFromRawValue ==
    Derived =>
        /\ derived.vl_suppressed.num = 1 <=> obs.vl < 1000
        /\ derived.vl_suppressed.num \in {0, 1}
        /\ obs.vl = 0 =>
              derived.vl_missing.num = 1 /\ derived.vl_suppressed.num = 1
        /\ derived.vl_missing.num = 1 => derived.vl_suppressed.num = 1

C9_Witness ==
    /\ Derived
    /\ obs.vl = 0
    /\ derived.vl_missing.num = 1
    /\ derived.vl_suppressed.num = 1

\* C10: the class and the probability shown are the classifier's two answers
\* and the vector is the aligned dictionary, none of them a function of the
\* threshold; only the tier is.  (The artifact is fixed before the threshold
\* is read, so two runs with the same artifact and inputs show the same
\* class, probability and vector under any two thresholds.)
C10_ClassFromClassifierOnly ==
    Predicted =>
        /\ shown.cls = (IF artifact.clf.pred = 1 THEN "Yes" ELSE "No")
        /\ shown.proba = artifact.clf.proba * 10
        /\ Len(X_input) = Len(artifact.feature_names)
        /\ \A i \in 1..Len(X_input) :
              /\ X_input[i].num = input_data_dict[artifact.feature_names[i]].num
              /\ X_input[i].den = input_data_dict[artifact.feature_names[i]].den
        /\ shown.tier = "AboveThreshold" <=> artifact.clf.proba > threshold

\* class No under Above Threshold, with a probability at most one half (what
\* a classifier that labels by the larger probability answers)
C10_Witness ==
    /\ Predicted
    /\ shown.cls = "No"
    /\ shown.tier = "AboveThreshold"
    /\ proba <= 500
    /\ pc = "done"

====
